---- MODULE Spec2Model ----
(***************************************************************************)
(* String Analyzer Service (src/index.js): an Express application holding  *)
(* one in-memory Storage.  A JavaScript string is modelled as a sequence   *)
(* of one-character strings, a JavaScript object as a function whose       *)
(* domain is the set of keys that are present, and a JavaScript number as  *)
(* a record [nan, n] so that NaN compares the way it does in JavaScript.   *)
(***************************************************************************)
EXTENDS Integers, Sequences, FiniteSets, Bags, TLC

VARIABLES
    strings,   \* Storage.strings: the Map, as its entries in insertion order
    now,       \* the wall clock read by new Date()
    pre,       \* history: Storage.strings as it was when the last request was taken up
    res,       \* history: the last request handled and the response sent for it
    issued,    \* history: the records returned with 201 and not yet deleted with 204
    pending,   \* requests that have arrived and whose handler has not run yet
    done       \* history: the requests handled so far, with their status, in order

vars == <<strings, now, pre, res, issued, pending, done>>

----------------------------------------------------------------------------
(* Bounds of the model *)

MaxStored == 2     \* records the model lets the store hold
MaxTime == 1       \* clock ticks
MaxFrags == 3      \* fragments a natural-language query is built from
MaxPending == 3    \* requests in flight at once
MaxDone == 4       \* requests handled in a run of the concurrent specification

----------------------------------------------------------------------------
(* Characters and strings *)

LowerLetters == <<"a", "b", "c", "d", "e", "f", "g", "h", "i", "j", "k", "l", "m",
                  "n", "o", "p", "q", "r", "s", "t", "u", "v", "w", "x", "y", "z">>

UpperLetters == <<"A", "B", "C", "D", "E", "F", "G", "H", "I", "J", "K", "L", "M",
                  "N", "O", "P", "Q", "R", "S", "T", "U", "V", "W", "X", "Y", "Z">>

DigitChars == <<"0", "1", "2", "3", "4", "5", "6", "7", "8", "9">>

IndexOf(c, seq) == IF \E i \in 1..Len(seq) : seq[i] = c
                   THEN CHOOSE i \in 1..Len(seq) : seq[i] = c
                   ELSE 0

IsDigit(c) == IndexOf(c, DigitChars) > 0

DigitValue(c) == IndexOf(c, DigitChars) - 1

\* \s of a JavaScript regular expression and of String.prototype.trim
IsSpace(c) == c \in {" ", "\t", "\n"}

\* the byte of a character (ASCII)
CharCode(c) ==
    IF IndexOf(c, LowerLetters) > 0 THEN 96 + IndexOf(c, LowerLetters)
    ELSE IF IndexOf(c, UpperLetters) > 0 THEN 64 + IndexOf(c, UpperLetters)
    ELSE IF IsDigit(c) THEN 48 + DigitValue(c)
    ELSE IF c = " " THEN 32
    ELSE IF c = "-" THEN 45
    ELSE IF c = "\t" THEN 9
    ELSE IF c = "\n" THEN 10
    ELSE 63

LowerChar(c) == IF IndexOf(c, UpperLetters) > 0
                THEN LowerLetters[IndexOf(c, UpperLetters)]
                ELSE c

\* String.prototype.toLowerCase
toLowerCase(s) == [i \in 1..Len(s) |-> LowerChar(s[i])]

\* value.split("").reverse().join("")
Reverse(s) == [i \in 1..Len(s) |-> s[Len(s) + 1 - i]]

RECURSIVE TrimStart(_)
TrimStart(s) == IF s # <<>> /\ IsSpace(Head(s)) THEN TrimStart(Tail(s)) ELSE s

\* String.prototype.trim
trim(s) == Reverse(TrimStart(Reverse(TrimStart(s))))

\* s.split(/\s+/): the pieces of s between its maximal runs of whitespace;
\* SplitFrom(s, i, cur, inRun) is the scan at position i, with cur the piece
\* being read and inRun telling whether position i-1 was whitespace
RECURSIVE SplitFrom(_, _, _, _)
SplitFrom(s, i, cur, inRun) ==
    IF i > Len(s) THEN <<cur>>
    ELSE IF IsSpace(s[i])
         THEN IF inRun THEN SplitFrom(s, i + 1, cur, TRUE)
              ELSE <<cur>> \o SplitFrom(s, i + 1, <<>>, TRUE)
         ELSE SplitFrom(s, i + 1, Append(cur, s[i]), FALSE)

splitWhitespace(s) == SplitFrom(s, 1, <<>>, FALSE)

\* String.prototype.includes
includes(s, sub) ==
    \E i \in 0..(Len(s) - Len(sub)) : SubSeq(s, i + 1, i + Len(sub)) = sub

----------------------------------------------------------------------------
(* JavaScript numbers and objects *)

Num(k) == [nan |-> FALSE, n |-> k]

NaN == [nan |-> TRUE, n |-> 0]

\* a < b and a > b on numbers: false as soon as one side is NaN
JsLess(a, b) == ~a.nan /\ ~b.nan /\ a.n < b.n

JsGreater(a, b) == ~a.nan /\ ~b.nan /\ a.n > b.n

\* a !== b on numbers: NaN differs from everything, itself included
JsNotEqual(a, b) == a.nan \/ b.nan \/ a.n # b.n

\* the truthiness of a number
NumTruthy(a) == ~a.nan /\ a.n # 0

\* {}: an object without keys
EmptyObject == <<>>

Has(o, k) == k \in DOMAIN o

\* o[k] = v
Put(o, k, v) == [x \in (DOMAIN o) \cup {k} |-> IF x = k THEN v ELSE o[x]]

\* the value of the leading run of digits of s from position i on, given the
\* value acc read so far
RECURSIVE DigitsFrom(_, _, _)
DigitsFrom(s, i, acc) ==
    IF i <= Len(s) /\ IsDigit(s[i])
    THEN DigitsFrom(s, i + 1, 10 * acc + DigitValue(s[i]))
    ELSE acc

\* parseInt(s, 10): leading whitespace is skipped, then an optional sign, then
\* the longest run of digits; NaN when there is no digit there
parseInt(s) ==
    LET t == TrimStart(s)
        neg == t # <<>> /\ Head(t) = "-"
        u == IF t # <<>> /\ Head(t) \in {"-", "+"} THEN Tail(t) ELSE t
    IN  IF u = <<>> \/ ~IsDigit(Head(u)) THEN NaN
        ELSE Num(IF neg THEN 0 - DigitsFrom(u, 1, 0) ELSE DigitsFrom(u, 1, 0))

----------------------------------------------------------------------------
(* class Storage *)

\* crypto.createHash("sha256").update(value).digest("hex"): the digest is
\* modelled by the bytes it is computed over, which makes it a function of
\* the value that is not the value itself and that never collides
sha256(value) == [i \in 1..Len(value) |-> CharCode(value[i])]

CharsOf(value) == {value[i] : i \in 1..Len(value)}

\* the Map freq after the loop over the characters of value
frequencyMap(value) ==
    [c \in CharsOf(value) |-> Cardinality({i \in 1..Len(value) : value[i] = c})]

computeProperties(value) ==
    LET lower == toLowerCase(value)
        hash == sha256(value)
        freq == frequencyMap(value)
        unique == Cardinality(DOMAIN freq)
        wordCount == Len(splitWhitespace(trim(value)))
        reversed == toLowerCase(Reverse(value))
        isPal == (lower = reversed)
    IN  [length |-> Len(value),
         is_palindrome |-> isPal,
         unique_characters |-> unique,
         word_count |-> wordCount,
         sha256_hash |-> hash,
         character_frequency_map |-> freq]

\* Map.prototype.has
MapHas(m, k) == \E i \in 1..Len(m) : m[i].key = k

\* Map.prototype.get; the caller tests MapHas first (get returns undefined)
MapGet(m, k) == m[CHOOSE i \in 1..Len(m) : m[i].key = k].val

\* Map.prototype.set: a present key keeps its place, a new one goes last
MapSet(m, k, v) ==
    IF MapHas(m, k)
    THEN [i \in 1..Len(m) |-> IF m[i].key = k THEN [key |-> k, val |-> v] ELSE m[i]]
    ELSE Append(m, [key |-> k, val |-> v])

\* Map.prototype.delete: the entries left
MapDelete(m, k) == SelectSeq(m, LAMBDA e : e.key # k)

\* create with the record kept under the digest of the lowercase value
createLowerKey(m, value, t) ==
    LET props == computeProperties(value)
        key == sha256(toLowerCase(value))
        stored == [id |-> props.sha256_hash,
                   value |-> value,
                   properties |-> props,
                   created_at |-> t]
    IN  IF MapHas(m, key)
        THEN [thrown |-> TRUE, m |-> m, stored |-> stored]
        ELSE [thrown |-> FALSE, m |-> MapSet(m, key, stored), stored |-> stored]

\* create with the record set before the test for its digest
createSetFirst(m, value, t) ==
    LET props == computeProperties(value)
        stored == [id |-> props.sha256_hash,
                   value |-> value,
                   properties |-> props,
                   created_at |-> t]
        after == MapSet(m, props.sha256_hash, stored)
    IN  [thrown |-> MapHas(after, props.sha256_hash), m |-> after, stored |-> stored]

\* create without the test for its digest
createNoCheck(m, value, t) ==
    LET props == computeProperties(value)
        stored == [id |-> props.sha256_hash,
                   value |-> value,
                   properties |-> props,
                   created_at |-> t]
    IN  [thrown |-> FALSE, m |-> MapSet(m, props.sha256_hash, stored),
         stored |-> stored]

\* Storage.create with the Map m and the clock at t: thrown tells whether it
\* threw "String already exists", m the Map afterwards, stored the record
create(m, value, t) ==
    LET props == computeProperties(value)
        stored == [id |-> props.sha256_hash,
                   value |-> value,
                   properties |-> props,
                   created_at |-> t]
    IN  IF MapHas(m, props.sha256_hash)
        THEN [thrown |-> TRUE, m |-> m, stored |-> stored]
        ELSE [thrown |-> FALSE, m |-> MapSet(m, props.sha256_hash, stored),
              stored |-> stored]

\* listMatch with <= for < in the test of min_length
listMatchOffByOne(stored, filters) ==
    LET p == stored.properties
        m1 == ~(Has(filters, "is_palindrome")
                /\ p.is_palindrome # filters.is_palindrome)
        m2 == ~(Has(filters, "min_length")
                /\ ~JsGreater(Num(p.length), filters.min_length)
                /\ ~filters.min_length.nan)
        m3 == ~(Has(filters, "max_length")
                /\ JsGreater(Num(p.length), filters.max_length))
        m4 == ~(Has(filters, "word_count")
                /\ JsNotEqual(Num(p.word_count), filters.word_count))
        m5 == ~(Has(filters, "contains_character")
                /\ ~(\E c \in DOMAIN p.character_frequency_map :
                        <<c>> = filters.contains_character))
    IN  m1 /\ m2 /\ m3 /\ m4 /\ m5

\* the test of one stored record in the loop of Storage.list
listMatch(stored, filters) ==
    LET p == stored.properties
        m1 == ~(Has(filters, "is_palindrome")
                /\ p.is_palindrome # filters.is_palindrome)
        m2 == ~(Has(filters, "min_length")
                /\ JsLess(Num(p.length), filters.min_length))
        m3 == ~(Has(filters, "max_length")
                /\ JsGreater(Num(p.length), filters.max_length))
        m4 == ~(Has(filters, "word_count")
                /\ JsNotEqual(Num(p.word_count), filters.word_count))
        m5 == ~(Has(filters, "contains_character")
                /\ ~(\E c \in DOMAIN p.character_frequency_map :
                        <<c>> = filters.contains_character))
    IN  m1 /\ m2 /\ m3 /\ m4 /\ m5

\* Storage.list
list(m, filters) ==
    LET hits == SelectSeq(m, LAMBDA e : listMatch(e.val, filters))
        results == [i \in 1..Len(hits) |-> hits[i].val]
    IN  [data |-> results, count |-> Len(results), filters_applied |-> filters]

----------------------------------------------------------------------------
(* Requests and the router *)

StringsSegment == <<"s", "t", "r", "i", "n", "g", "s">>

FilterByNaturalLanguage ==
    <<"f", "i", "l", "t", "e", "r", "-", "b", "y", "-", "n", "a", "t", "u", "r", "a",
      "l", "-", "l", "a", "n", "g", "u", "a", "g", "e">>

\* a segment of a route's path: a literal, or a parameter such as :value
Literal(text) == [param |-> FALSE, text |-> text]

Param(name) == [param |-> TRUE, text |-> name]

\* the routes in the order the application registers them
Routes ==
    << [method |-> "POST", path |-> <<Literal(StringsSegment)>>],
       [method |-> "GET", path |-> <<Literal(StringsSegment), Param("value")>>],
       [method |-> "GET", path |-> <<Literal(StringsSegment)>>],
       [method |-> "GET",
        path |-> <<Literal(StringsSegment), Literal(FilterByNaturalLanguage)>>],
       [method |-> "DELETE", path |-> <<Literal(StringsSegment), Param("value")>>] >>

PostStringsRoute == 1
GetStringsValueRoute == 2
GetStringsRoute == 3
GetNaturalLanguageRoute == 4
DeleteStringsValueRoute == 5

\* whether a route's path matches the path of a request: a parameter matches
\* any segment that is not empty
RouteMatches(route, req) ==
    /\ route.method = req.method
    /\ Len(route.path) = Len(req.path)
    /\ \A i \in 1..Len(route.path) :
          IF route.path[i].param THEN req.path[i] # <<>>
          ELSE route.path[i].text = req.path[i]

\* the router: the first registered route that matches handles the request
\* (each handler answers and none calls next()); 0 when no route matches
Dispatch(req) ==
    IF \E i \in 1..Len(Routes) : RouteMatches(Routes[i], req)
    THEN CHOOSE i \in 1..Len(Routes) :
            /\ RouteMatches(Routes[i], req)
            /\ \A j \in 1..(i - 1) : ~RouteMatches(Routes[j], req)
    ELSE 0

Request(method, path, query, body) ==
    [method |-> method, path |-> path, query |-> query, body |-> body]

\* a value of a JSON body: a string, or something that is not a string
JsString(s) == [type |-> "string", s |-> s]

JsNumber == [type |-> "number", s |-> <<>>]

Response(m, status, body) == [m |-> m, status |-> status, body |-> body]

ErrorBody(message) == [error |-> message]

----------------------------------------------------------------------------
(* The handlers: the Map m they run on, the request, and the response *)

\* app.post("/strings")
postStrings(m, req, t) ==
    IF ~Has(req.body, "value")
       \/ req.body.value.type # "string"
       \/ req.body.value.s = <<>>
    THEN Response(m, 422, ErrorBody("Invalid data type for value (must be string)"))
    ELSE LET c == create(m, req.body.value.s, t)
         IN  IF c.thrown
             THEN Response(m, 409, ErrorBody("String already exists in the system"))
             ELSE Response(c.m, 201, c.stored)

\* getStringsValue looking the value up without regard to case
getStringsValueLower(m, req) ==
    LET value == toLowerCase(req.path[2])
        props == computeProperties(value)
    IN  IF ~MapHas(m, props.sha256_hash)
        THEN Response(m, 404, ErrorBody("String does not exist in the system"))
        ELSE Response(m, 200, MapGet(m, props.sha256_hash))

\* app.get("/strings/:value")
getStringsValue(m, req) ==
    LET value == req.path[2]
        props == computeProperties(value)
    IN  IF ~MapHas(m, props.sha256_hash)
        THEN Response(m, 404, ErrorBody("String does not exist in the system"))
        ELSE Response(m, 200, MapGet(m, props.sha256_hash))

TrueText == <<"t", "r", "u", "e">>

\* the filters object app.get("/strings") builds from req.query
listFilters(query) ==
    LET f0 == EmptyObject
        f1 == IF Has(query, "is_palindrome")
              THEN Put(f0, "is_palindrome", query.is_palindrome = TrueText)
              ELSE f0
        f2 == IF Has(query, "min_length") /\ query.min_length # <<>>
              THEN Put(f1, "min_length", parseInt(query.min_length))
              ELSE f1
        f3 == IF Has(query, "max_length") /\ query.max_length # <<>>
              THEN Put(f2, "max_length", parseInt(query.max_length))
              ELSE f2
        f4 == IF Has(query, "word_count") /\ query.word_count # <<>>
              THEN Put(f3, "word_count", parseInt(query.word_count))
              ELSE f3
        f5 == IF Has(query, "contains_character") /\ query.contains_character # <<>>
              THEN Put(f4, "contains_character", query.contains_character)
              ELSE f4
    IN  f5

\* app.get("/strings")
getStrings(m, req) ==
    IF /\ Has(req.query, "contains_character")
       /\ req.query.contains_character # <<>>
       /\ Len(req.query.contains_character) # 1
    THEN Response(m, 400, ErrorBody("Invalid query parameter values or types"))
    ELSE Response(m, 200, list(m, listFilters(req.query)))

\* deleteStringsValue without the test of what Storage.delete returns
deleteStringsValueNoCheck(m, req) ==
    LET value == req.path[2]
        props == computeProperties(value)
    IN  Response(MapDelete(m, props.sha256_hash), 204, <<>>)

\* app.delete("/strings/:value")
deleteStringsValue(m, req) ==
    LET value == req.path[2]
        props == computeProperties(value)
    IN  IF ~MapHas(m, props.sha256_hash)
        THEN Response(m, 404, ErrorBody("String does not exist in the system"))
        ELSE Response(MapDelete(m, props.sha256_hash), 204, <<>>)

----------------------------------------------------------------------------
(* The natural-language interpreter *)

Palindromic == <<"p", "a", "l", "i", "n", "d", "r", "o", "m", "i", "c">>

Palindrome == <<"p", "a", "l", "i", "n", "d", "r", "o", "m", "e">>

SingleWord == <<"s", "i", "n", "g", "l", "e", " ", "w", "o", "r", "d">>

OneWord == <<"o", "n", "e", " ", "w", "o", "r", "d">>

LongerThan == <<"l", "o", "n", "g", "e", "r", " ", "t", "h", "a", "n", " ">>

MoreThan == <<"m", "o", "r", "e", " ", "t", "h", "a", "n", " ">>

LetterSpace == <<"l", "e", "t", "t", "e", "r", " ">>

Vowel == <<"v", "o", "w", "e", "l">>

\* whether prefix stands in s right after position i, followed by a character
\* of the class (a sequence of characters) the regular expression asks for
PrefixThenAt(s, i, prefix, class) ==
    /\ i + Len(prefix) + 1 <= Len(s)
    /\ SubSeq(s, i + 1, i + Len(prefix)) = prefix
    /\ IndexOf(s[i + Len(prefix) + 1], class) > 0

\* lowerQuery.match(/longer than (\d+)|more than (\d+)/): the leftmost place
\* where one of the two alternatives matches, and the digits captured there
\* (the capture is greedy); found is FALSE when match returns null
lengthMatch(s) ==
    LET At(i) == \/ PrefixThenAt(s, i, LongerThan, DigitChars)
                 \/ PrefixThenAt(s, i, MoreThan, DigitChars)
        Places == {i \in 0..Len(s) : At(i)}
    IN  IF Places = {} THEN [found |-> FALSE, num |-> 0]
        ELSE LET i == CHOOSE x \in Places : \A y \in Places : x <= y
                 k == IF PrefixThenAt(s, i, LongerThan, DigitChars)
                      THEN Len(LongerThan) ELSE Len(MoreThan)
             IN  [found |-> TRUE, num |-> DigitsFrom(s, i + k + 1, 0)]

\* lowerQuery.match(/letter ([a-z])/): the leftmost match and its capture
charMatch(s) ==
    LET Places == {i \in 0..Len(s) : PrefixThenAt(s, i, LetterSpace, LowerLetters)}
    IN  IF Places = {} THEN [found |-> FALSE, char |-> <<>>]
        ELSE LET i == CHOOSE x \in Places : \A y \in Places : x <= y
             IN  [found |-> TRUE, char |-> <<s[i + Len(LetterSpace) + 1]>>]

\* the rules of parseNaturalQuery, each taking the filters object f built so
\* far and giving it back with its own key set when the rule fires
palindromeRule(f, lowerQuery) ==
    IF includes(lowerQuery, Palindromic) \/ includes(lowerQuery, Palindrome)
    THEN Put(f, "is_palindrome", TRUE)
    ELSE f

wordRule(f, lowerQuery) ==
    IF includes(lowerQuery, SingleWord) \/ includes(lowerQuery, OneWord)
    THEN Put(f, "word_count", Num(1))
    ELSE f

lengthRuleOn(f, lm) == IF lm.found THEN Put(f, "min_length", Num(lm.num + 1)) ELSE f

lengthRule(f, lowerQuery) == lengthRuleOn(f, lengthMatch(lowerQuery))

letterRuleOn(f, cm) == IF cm.found THEN Put(f, "contains_character", cm.char) ELSE f

letterRule(f, lowerQuery) == letterRuleOn(f, charMatch(lowerQuery))

vowelRule(f, lowerQuery) ==
    IF includes(lowerQuery, Vowel) THEN Put(f, "contains_character", <<"a">>) ELSE f

zRule(f, lowerQuery) ==
    IF includes(lowerQuery, <<"z">>) THEN Put(f, "contains_character", <<"z">>) ELSE f

\* naturalFilters with the rule for "z" run before the rule for "vowel"
naturalFiltersZFirst(lowerQuery) ==
    vowelRule(zRule(letterRule(lengthRule(wordRule(palindromeRule(EmptyObject,
        lowerQuery), lowerQuery), lowerQuery), lowerQuery), lowerQuery), lowerQuery)

\* the filters object of parseNaturalQuery before its two final tests: the
\* rules in the order of the code
naturalFilters(lowerQuery) ==
    zRule(vowelRule(letterRule(lengthRule(wordRule(palindromeRule(EmptyObject,
        lowerQuery), lowerQuery), lowerQuery), lowerQuery), lowerQuery), lowerQuery)

\* the two final tests of parseNaturalQuery: kind is "null" when it returns
\* null, "throw" when it throws "Conflicting filters", and "filters" when it
\* returns the filters
checkedFilters(filters) ==
    IF DOMAIN filters = {} THEN [kind |-> "null", filters |-> filters]
    ELSE IF /\ Has(filters, "min_length") /\ NumTruthy(filters.min_length)
            /\ Has(filters, "max_length") /\ NumTruthy(filters.max_length)
            /\ JsGreater(filters.min_length, filters.max_length)
         THEN [kind |-> "throw", filters |-> filters]
         ELSE [kind |-> "filters", filters |-> filters]

parseNaturalQuery(query) == checkedFilters(naturalFilters(toLowerCase(query)))

\* the response of the natural-language handler once the query is parsed
naturalResponse(m, query, parsed, result) ==
    IF parsed.kind = "throw"
    THEN Response(m, 422, ErrorBody("Query parsed but resulted in conflicting filters"))
    ELSE IF parsed.kind = "null"
    THEN Response(m, 400, ErrorBody("Unable to parse natural language query"))
    ELSE Response(m, 200,
            [data |-> result.data,
             count |-> result.count,
             filters_applied |-> result.filters_applied,
             interpreted_query |->
                 [original |-> query, parsed_filters |-> parsed.filters]])

naturalParsed(m, query, parsed) ==
    naturalResponse(m, query, parsed, list(m, parsed.filters))

\* app.get("/strings/filter-by-natural-language")
getNaturalLanguage(m, req) ==
    IF ~Has(req.query, "query") \/ req.query.query = <<>>
    THEN Response(m, 400, ErrorBody("Unable to parse natural language query"))
    ELSE naturalParsed(m, req.query.query, parseNaturalQuery(req.query.query))

----------------------------------------------------------------------------
(* The requests the clients send *)

\* the union of two objects with different keys
Merge(a, b) == [x \in (DOMAIN a) \cup (DOMAIN b) |-> IF x \in DOMAIN a THEN a[x] ELSE b[x]]

\* the object {k: v} for every v of vs, and {} for the parameter left out
Optional(k, vs) == {EmptyObject} \cup {Put(EmptyObject, k, v) : v \in vs}

Values ==
    { <<"a">>, <<"A", "a">>, <<"a", " ", "b">>, <<" ">>, FilterByNaturalLanguage }

PostBodies ==
    {Put(EmptyObject, "value", JsString(v)) : v \in Values \cup {<<>>}}
        \cup {Put(EmptyObject, "value", JsNumber), EmptyObject}

PostRequests ==
    {Request("POST", <<StringsSegment>>, EmptyObject, b) : b \in PostBodies}

GetValueRequests ==
    {Request("GET", <<StringsSegment, v>>, EmptyObject, EmptyObject) : v \in Values}

DeleteRequests ==
    {Request("DELETE", <<StringsSegment, v>>, EmptyObject, EmptyObject) : v \in Values}

ListQueries ==
    { Merge(a, Merge(b, Merge(c, Merge(d, e)))) :
        a \in Optional("is_palindrome", {TrueText, <<"n", "o">>}),
        b \in Optional("min_length", {<<"2">>, <<"x">>}),
        c \in Optional("max_length", {<<"1">>, <<>>}),
        d \in Optional("word_count", {<<"1">>, <<"2", "x">>}),
        e \in Optional("contains_character", {<<>>, <<"a">>, <<" ">>, <<"a", "b">>}) }

ListRequests ==
    {Request("GET", <<StringsSegment>>, q, EmptyObject) : q \in ListQueries}

\* the few GET /strings requests sent to the server between the other requests
ServerListRequests ==
    { Request("GET", <<StringsSegment>>, q, EmptyObject) :
        q \in Optional("contains_character", {<<>>, <<"a">>, <<"a", "b">>})
                \cup Optional("is_palindrome", {TrueText}) }

\* GET /strings/filter-by-natural-language, with and without ?query=
NaturalRequests ==
    { Request("GET", <<StringsSegment, FilterByNaturalLanguage>>, q, EmptyObject) :
        q \in Optional("query", {Palindromic, StringsSegment}) }

Requests ==
    PostRequests \cup GetValueRequests \cup DeleteRequests \cup ServerListRequests
        \cup NaturalRequests

----------------------------------------------------------------------------
(* The server, one request at a time: a handler is synchronous, so it runs *)
(* from the arrival of its request to its response without interruption.   *)

NoResponse ==
    [handler |-> "none", req |-> Request("NONE", <<>>, EmptyObject, EmptyObject),
     status |-> 0, body |-> <<>>]

Init ==
    /\ strings = <<>>
    /\ now = 0
    /\ pre = <<>>
    /\ res = NoResponse
    /\ issued = {}
    /\ pending = EmptyBag
    /\ done = EmptyBag

\* the handler named handler has answered req with r
Serve(req, handler, r) ==
    /\ strings' = r.m
    /\ pre' = strings
    /\ res' = [handler |-> handler, req |-> req, status |-> r.status, body |-> r.body]
    /\ issued' = IF r.status = 201 THEN issued \cup {r.body}
                 ELSE IF r.status = 204
                      THEN {x \in issued : x.value # req.path[2]}
                      ELSE issued
    /\ now' = now

\* the model stops creating at MaxStored records
PostStringsOn(req) ==
    /\ Dispatch(req) = PostStringsRoute
    /\ Len(postStrings(strings, req, now).m) <= MaxStored
    /\ Serve(req, "postStrings", postStrings(strings, req, now))

GetStringsValueOn(req) ==
    /\ Dispatch(req) = GetStringsValueRoute
    /\ Serve(req, "getStringsValue", getStringsValue(strings, req))

GetStringsOn(req) ==
    /\ Dispatch(req) = GetStringsRoute
    /\ Serve(req, "getStrings", getStrings(strings, req))

DeleteStringsValueOn(req) ==
    /\ Dispatch(req) = DeleteStringsValueRoute
    /\ Serve(req, "deleteStringsValue", deleteStringsValue(strings, req))

\* new Date() reads a later time
Tick ==
    /\ now < MaxTime
    /\ now' = now + 1
    /\ UNCHANGED <<strings, pre, res, issued, pending, done>>

PostStrings ==
    \E req \in Requests : PostStringsOn(req) /\ UNCHANGED <<pending, done>>

GetStringsValue ==
    \E req \in Requests : GetStringsValueOn(req) /\ UNCHANGED <<pending, done>>

GetStrings ==
    \E req \in Requests : GetStringsOn(req) /\ UNCHANGED <<pending, done>>

DeleteStringsValue ==
    \E req \in Requests : DeleteStringsValueOn(req) /\ UNCHANGED <<pending, done>>

\* No request is ever dispatched to GetNaturalLanguageRoute (see
\* NaturalRouteShadowed), so that handler is no step of the server.
Next == Tick \/ PostStrings \/ GetStringsValue \/ GetStrings \/ DeleteStringsValue

Spec == Init /\ [][Next]_vars

\* the route /strings/:value, registered first, takes every GET of two segments
NaturalRouteShadowed ==
    \A req \in Requests : Dispatch(req) # GetNaturalLanguageRoute

TypeOK ==
    /\ now \in 0..MaxTime
    /\ res.status \in {0, 200, 201, 204, 400, 404, 409, 422}

----------------------------------------------------------------------------
(* Storage.list and the two handlers that call it, each applied to one     *)
(* request on a store that creates have filled                             *)

StoreValues == { <<"a">>, <<"A", "a">>, <<"a", "b">>, <<"a", " ", "b">>, <<"z", " ">> }

\* the Maps that n successful creates reach from the empty Map
RECURSIVE StoresOfSize(_)
StoresOfSize(n) ==
    IF n = 0 THEN {<<>>}
    ELSE UNION { { create(m, v, 0).m :
                     v \in {x \in StoreValues : ~create(m, x, 0).thrown} } :
                   m \in StoresOfSize(n - 1) }

Stores == UNION {StoresOfSize(n) : n \in 0..MaxStored}

ListInit ==
    /\ strings \in Stores
    /\ now = 0
    /\ pre = strings
    /\ res = NoResponse
    /\ issued = {strings[i].val : i \in 1..Len(strings)}
    /\ \E req \in ListRequests : pending = SetToBag({req})
    /\ done = EmptyBag

\* the handler of a request in flight has run; same is the number of requests
\* equal to it that were in flight then, itself included
Finish(req, status) ==
    /\ pending' = pending (-) SetToBag({req})
    /\ done' = done (+) SetToBag({[req |-> req, status |-> status,
                                   same |-> CopiesIn(req, pending)]})

ListServe ==
    \E req \in BagToSet(pending) : GetStringsOn(req) /\ Finish(req, res'.status)

ListNext == ListServe

ListSpec == ListInit /\ [][ListNext]_vars

ShorterThanThree ==
    <<" ", "s", "h", "o", "r", "t", "e", "r", " ", "t", "h", "a", "n", " ", "3">>

\* the fragments natural-language queries are put together from
Fragments ==
    { Palindromic, Palindrome, SingleWord, OneWord, LongerThan, MoreThan,
      <<"5">>, <<"1", "0">>, LetterSpace, <<"b">>, Vowel, <<"Z">>, <<" ">>,
      StringsSegment, ShorterThanThree }

RECURSIVE QueriesOfSize(_)
QueriesOfSize(n) ==
    IF n = 0 THEN {<<>>}
    ELSE {q \o f : q \in QueriesOfSize(n - 1), f \in Fragments}

Queries == UNION {QueriesOfSize(n) : n \in 0..MaxFrags}

\* the handler is applied to the request directly, the router left aside
NaturalRequestsOf(qs) ==
    { Request("GET", <<StringsSegment, FilterByNaturalLanguage>>, q, EmptyObject) :
        q \in Optional("query", qs) }

\* the store after a create of every value of a sequence, in order
RECURSIVE StoreOf(_)
StoreOf(values) ==
    IF values = <<>> THEN <<>>
    ELSE create(StoreOf(SubSeq(values, 1, Len(values) - 1)), values[Len(values)], 0).m

NaturalStores ==
    { <<>>,
      StoreOf(<< <<"a">>, <<"A", "a">>, <<"a", "b">>, <<"a", " ", "b">>, <<"z", " ">>,
                 <<"l", "e", "v", "e", "l">>, <<"b", "o", "b">> >>) }

NaturalInit ==
    /\ strings \in NaturalStores
    /\ now = 0
    /\ pre = strings
    /\ res = NoResponse
    /\ issued = {strings[i].val : i \in 1..Len(strings)}
    /\ \E req \in NaturalRequestsOf(Queries) : pending = SetToBag({req})
    /\ done = EmptyBag

NaturalServe ==
    \E req \in BagToSet(pending) :
        /\ Serve(req, "getNaturalLanguage", getNaturalLanguage(strings, req))
        /\ Finish(req, res'.status)

NaturalNext == NaturalServe

NaturalSpec == NaturalInit /\ [][NaturalNext]_vars

----------------------------------------------------------------------------
(* The server with several requests in flight: requests arrive at any time *)
(* and the event loop runs the handler of any of them, one handler at a    *)
(* time and each to its end (no handler awaits anything).                  *)

ConcurrentValues == { <<"a">>, <<"a", "b">> }

ConcurrentRequests ==
    {Request("POST", <<StringsSegment>>, EmptyObject, Put(EmptyObject, "value", JsString(v))) :
        v \in ConcurrentValues}
    \cup {Request("GET", <<StringsSegment, v>>, EmptyObject, EmptyObject) :
            v \in ConcurrentValues}
    \cup {Request("DELETE", <<StringsSegment, v>>, EmptyObject, EmptyObject) :
            v \in ConcurrentValues}
    \cup {Request("GET", <<StringsSegment>>, EmptyObject, EmptyObject)}

Arrive ==
    \E req \in ConcurrentRequests :
        /\ BagCardinality(pending) < MaxPending
        /\ BagCardinality(pending) + BagCardinality(done) < MaxDone
        /\ pending' = pending (+) SetToBag({req})
        /\ UNCHANGED <<strings, now, pre, res, issued, done>>

RunPostStrings ==
    \E req \in BagToSet(pending) : PostStringsOn(req) /\ Finish(req, res'.status)

RunGetStringsValue ==
    \E req \in BagToSet(pending) : GetStringsValueOn(req) /\ Finish(req, res'.status)

RunGetStrings ==
    \E req \in BagToSet(pending) : GetStringsOn(req) /\ Finish(req, res'.status)

RunDeleteStringsValue ==
    \E req \in BagToSet(pending) : DeleteStringsValueOn(req) /\ Finish(req, res'.status)

ConcurrentNext ==
    Arrive \/ RunPostStrings \/ RunGetStringsValue \/ RunGetStrings
        \/ RunDeleteStringsValue

ConcurrentSpec == Init /\ [][ConcurrentNext]_vars

----------------------------------------------------------------------------
(* The claims about the store: checked under Spec *)

Records(m) == {m[i].val : i \in 1..Len(m)}

\* the value a POST /strings hands to Storage.create, when it gets that far
CreatesValue(r) ==
    /\ r.handler = "postStrings"
    /\ Has(r.req.body, "value")
    /\ r.req.body.value.type = "string"
    /\ r.req.body.value.s # <<>>

\* C1: in every reachable state the store holds at most one record per digest,
\* hence per value, and every record r is kept under the key r.id, with
\* r.id = r.properties.sha256_hash = the digest of r.value.
C1_OneRecordPerDigest ==
    /\ \A i, j \in 1..Len(strings) :
          (strings[i].key = strings[j].key \/ strings[i].val.value = strings[j].val.value)
              => i = j
    /\ \A i \in 1..Len(strings) :
          /\ strings[i].key = strings[i].val.id
          /\ strings[i].val.id = strings[i].val.properties.sha256_hash
          /\ strings[i].val.id = sha256(strings[i].val.value)

\* C1's case: two records are stored, the second one just created at the
\* latest time of the clock
C1_Witness ==
    /\ Len(strings) = 2
    /\ res.handler = "postStrings" /\ res.status = 201
    /\ strings[1].val.value = <<"A", "a">>
    /\ strings[2].val.value = <<"a">>
    /\ strings[2].val.created_at = MaxTime

\* C2: a create of a value whose digest is stored fails with 409 and leaves
\* the store as it was, created_at of the stored record included; a create of
\* a value whose digest is not stored succeeds with 201 and adds exactly the
\* record it returns.
C2_CreateAllOrNothing ==
    CreatesValue(res) =>
        LET value == res.req.body.value.s
            present == \E i \in 1..Len(pre) : pre[i].key = sha256(value)
        IN  IF present
            THEN res.status = 409 /\ strings = pre
            ELSE /\ res.status = 201
                 /\ res.body.value = value
                 /\ strings = Append(pre, [key |-> sha256(value), val |-> res.body])

\* C2's case: a second POST of a stored value, at a later time, answered 409
C2_Witness ==
    /\ CreatesValue(res)
    /\ res.status = 409
    /\ \E i \in 1..Len(strings) :
          /\ strings[i].val.value = res.req.body.value.s
          /\ strings[i].val.created_at < now

\* C3: once POST {value: v} has returned 201 with record R, every GET
\* /strings/v returns 200 with R itself until DELETE /strings/v returns 204;
\* then GET /strings/v returns 404 and a POST {value: v} returns 201 again.
\* issued holds the records returned with 201 and not yet deleted with 204.
C3_GetReturnsIssuedRecord ==
    /\ res.handler = "getStringsValue" =>
          LET R == {x \in issued : x.value = res.req.path[2]}
          IN  IF R # {} THEN res.status = 200 /\ R = {res.body}
              ELSE res.status = 404
    /\ CreatesValue(res) =>
          LET R == {x \in issued : x.value = res.req.body.value.s}
          IN  \/ res.status = 201 /\ R = {res.body}
              \/ res.status = 409 /\ Cardinality(R) = 1 /\ R = Records(pre) \cap R
    /\ res.handler = "deleteStringsValue" =>
          LET v == res.req.path[2]
          IN  /\ {x \in issued : x.value = v} = {}
              /\ res.status = 204 <=> (\E x \in Records(pre) : x.value = v)

\* C3's case: a GET answered 200 with a record created earlier, a request on
\* another value having been served since
C3_Witness ==
    /\ res.handler = "getStringsValue"
    /\ res.status = 200
    /\ res.body.created_at < now
    /\ Len(strings) = 2
    /\ strings[1].val = res.body

\* C8: DELETE /strings/{value} returns 204 iff a record with that digest was
\* stored, and then removes that record and no other; otherwise it returns 404
\* and leaves the store as it was; afterwards no record has that digest, so a
\* second delete reports not found.
C8_DeleteRemovesExactlyOne ==
    res.handler = "deleteStringsValue" =>
        LET h == sha256(res.req.path[2])
            present == \E i \in 1..Len(pre) : pre[i].key = h
        IN  /\ res.status = (IF present THEN 204 ELSE 404)
            /\ strings = SelectSeq(pre, LAMBDA e : e.key # h)
            /\ ~present => strings = pre
            /\ present => Len(strings) = Len(pre) - 1
            /\ deleteStringsValue(strings, res.req).status = 404

\* C8's case: a delete answered 204 that leaves the other record in place
C8_Witness ==
    /\ res.handler = "deleteStringsValue"
    /\ res.status = 204
    /\ Len(pre) = 2
    /\ Len(strings) = 1

\* whether a request is GET /strings/filter-by-natural-language
IsNaturalRequest(req) ==
    /\ req.method = "GET"
    /\ req.path = <<StringsSegment, FilterByNaturalLanguage>>

\* C4: GET /strings/filter-by-natural-language is answered by the
\* natural-language handler in every store state: 200 with interpreted_query
\* when a rule fires for the query, 400 when the query is missing or
\* unparseable; never as a lookup of the value "filter-by-natural-language".
C4_NaturalRouteAnswered ==
    IsNaturalRequest(res.req) =>
        /\ res.handler = "getNaturalLanguage"
        /\ res.status = getNaturalLanguage(pre, res.req).status
        /\ res.body = getNaturalLanguage(pre, res.req).body

----------------------------------------------------------------------------
(* The claims about Storage.list and GET /strings: checked under ListSpec *)

\* whether every value of a filter set has the type the filter asks for
TypedFilters(f) ==
    /\ Has(f, "min_length") => ~f.min_length.nan
    /\ Has(f, "max_length") => ~f.max_length.nan
    /\ Has(f, "word_count") => ~f.word_count.nan
    /\ Has(f, "contains_character") => Len(f.contains_character) = 1

\* the predicates of the filters, as the table of filters states them
Satisfies(r, f) ==
    /\ Has(f, "is_palindrome") => r.properties.is_palindrome = f.is_palindrome
    /\ Has(f, "min_length") => r.properties.length >= f.min_length.n
    /\ Has(f, "max_length") => r.properties.length <= f.max_length.n
    /\ Has(f, "word_count") => r.properties.word_count = f.word_count.n
    /\ Has(f, "contains_character") =>
          f.contains_character[1] \in DOMAIN r.properties.character_frequency_map

\* C6: list(filterSet) returns exactly the stored records that satisfy every
\* filter present, each once, with count their number, and leaves the store
\* as it was; an empty filter set returns every record and one with
\* min_length > max_length returns none.
C6_ListReturnsExactlyMatches ==
    (res.handler = "getStrings" /\ res.status = 200
        /\ TypedFilters(res.body.filters_applied)) =>
        LET f == res.body.filters_applied
            data == res.body.data
        IN  /\ {data[i] : i \in 1..Len(data)} = {r \in Records(pre) : Satisfies(r, f)}
            /\ \A i, j \in 1..Len(data) : data[i] = data[j] => i = j
            /\ res.body.count = Len(data)
            /\ strings = pre
            /\ DOMAIN f = {} => Len(data) = Len(pre)
            /\ (Has(f, "min_length") /\ Has(f, "max_length")
                  /\ f.min_length.n > f.max_length.n) => data = <<>>

\* C6's case: two records stored and a list with two filters that returns one
C6_Witness ==
    /\ res.handler = "getStrings"
    /\ res.status = 200
    /\ Has(res.body.filters_applied, "min_length")
    /\ Has(res.body.filters_applied, "contains_character")
    /\ TypedFilters(res.body.filters_applied)
    /\ Len(strings) = 2
    /\ res.body.count = 1

\* C7: GET /strings returns 400 whenever contains_character is present with a
\* length other than 1, the empty string included, and 200 otherwise.
C7_ContainsCharacterValidated ==
    res.handler = "getStrings" =>
        IF Has(res.req.query, "contains_character")
           /\ Len(res.req.query.contains_character) # 1
        THEN res.status = 400
        ELSE res.status = 200

----------------------------------------------------------------------------
(* The claims about the interpreter: checked under NaturalSpec *)

\* the query of a request the natural-language handler got, "" when missing
QueryOf(req) == IF Has(req.query, "query") THEN req.query.query ELSE <<>>

\* the rules as the specification words them, on the lowercase query
PalindromeFires(q) == includes(q, Palindromic) \/ includes(q, Palindrome)

WordFires(q) == includes(q, SingleWord) \/ includes(q, OneWord)

LengthFires(q) == lengthMatch(q).found

LetterFires(q) == charMatch(q).found

VowelFires(q) == includes(q, Vowel)

ZFires(q) == includes(q, <<"z">>)

FiredKeys(q) ==
    (IF PalindromeFires(q) THEN {"is_palindrome"} ELSE {})
        \cup (IF WordFires(q) THEN {"word_count"} ELSE {})
        \cup (IF LengthFires(q) THEN {"min_length"} ELSE {})
        \cup (IF LetterFires(q) \/ VowelFires(q) \/ ZFires(q)
              THEN {"contains_character"} ELSE {})

\* a query that asks for more than 10 characters and fewer than 3
ImpliesConflict(q) ==
    /\ includes(q, ShorterThanThree)
    /\ lengthMatch(q).found
    /\ lengthMatch(q).num + 1 > 2

\* C5: a query implying contradictory bounds makes the interpreter fail with
\* ConflictingFilters, which the endpoint reports as 422.
C5_ConflictingBoundsRejected ==
    (res.handler = "getNaturalLanguage"
        /\ ImpliesConflict(toLowerCase(QueryOf(res.req)))) => res.status = 422

\* what the code does instead: no query makes parseNaturalQuery throw
NeverConflicting ==
    res.handler = "getNaturalLanguage" =>
        /\ res.status # 422
        /\ parseNaturalQuery(QueryOf(res.req)).kind # "throw"
        /\ ~Has(parseNaturalQuery(QueryOf(res.req)).filters, "max_length")

\* C9: interpret returns null iff no rule fires; otherwise the filter set
\* holds exactly the keys of the rules that fired, with min_length = N + 1 for
\* the first numeric capture and contains_character "z" if the query has a z,
\* else "a" if it has "vowel", else the X of "letter X".
C9_InterpretFollowsRules ==
    res.handler = "getNaturalLanguage" =>
        LET q == toLowerCase(QueryOf(res.req))
            parsed == parseNaturalQuery(QueryOf(res.req))
        IN  /\ (parsed.kind = "null") <=> (FiredKeys(q) = {})
            /\ res.status = (IF FiredKeys(q) = {} THEN 400 ELSE 200)
            /\ res.status = 200 =>
                  LET f == res.body.interpreted_query.parsed_filters
                  IN  /\ f = parsed.filters
                      /\ f = res.body.filters_applied
                      /\ res.body.interpreted_query.original = QueryOf(res.req)
                      /\ DOMAIN f = FiredKeys(q)
                      /\ PalindromeFires(q) => f.is_palindrome = TRUE
                      /\ WordFires(q) => f.word_count = Num(1)
                      /\ LengthFires(q) => f.min_length = Num(lengthMatch(q).num + 1)
                      /\ ZFires(q) => f.contains_character = <<"z">>
                      /\ (VowelFires(q) /\ ~ZFires(q)) => f.contains_character = <<"a">>
                      /\ (LetterFires(q) /\ ~VowelFires(q) /\ ~ZFires(q)) =>
                            f.contains_character = charMatch(q).char

\* C9's case: the three rules for contains_character fire on one query
C9_Witness ==
    /\ res.handler = "getNaturalLanguage"
    /\ res.status = 200
    /\ LetterFires(toLowerCase(QueryOf(res.req)))
    /\ VowelFires(toLowerCase(QueryOf(res.req)))
    /\ ZFires(toLowerCase(QueryOf(res.req)))
    /\ res.body.interpreted_query.parsed_filters.contains_character = <<"z">>

----------------------------------------------------------------------------
(* The claim about requests in flight: checked under ConcurrentSpec *)

\* how many handled requests the entries of S stand for
CountDone(S) == BagCardinality([e \in S |-> done[e]])

PostsDone(v, status) ==
    {e \in BagToSet(done) :
        e.req.method = "POST" /\ e.req.body.value.s = v /\ e.status = status}

DeletesDone(v, status) ==
    {e \in BagToSet(done) :
        e.req.method = "DELETE" /\ e.req.path[2] = v /\ e.status = status}

\* a record with all its fields, the properties those of its value
Complete(r) ==
    /\ DOMAIN r = {"id", "value", "properties", "created_at"}
    /\ r.id = sha256(r.value)
    /\ r.properties = computeProperties(r.value)

\* C10: under any interleaving of requests in flight each handler's test and
\* change of the store are one step: of the POSTs of one value exactly one
\* returns 201 and the others 409 (as long as none of its DELETEs succeeds),
\* no create and no delete is lost (201s minus 204s is 1 when the value is
\* stored and 0 when it is not), and no GET or list returns a record that is
\* not whole.
C10_HandlersAreAtomic ==
    /\ \A v \in ConcurrentValues :
          LET created == CountDone(PostsDone(v, 201))
              refused == CountDone(PostsDone(v, 409))
              posts == CountDone(UNION {PostsDone(v, st) : st \in {201, 400, 409, 422}})
              removed == CountDone(DeletesDone(v, 204))
          IN  /\ created - removed = (IF MapHas(strings, sha256(v)) THEN 1 ELSE 0)
              /\ posts = created + refused
              /\ (removed = 0 /\ posts > 0) => (created = 1 /\ refused = posts - 1)
    /\ \A r \in Records(strings) : Complete(r)
    /\ (res.handler = "getStringsValue" /\ res.status = 200) => Complete(res.body)
    /\ (res.handler = "getStrings" /\ res.status = 200) =>
          \A i \in 1..Len(res.body.data) : Complete(res.body.data[i])

\* C10's case: three POSTs of one value were in flight together; the first to
\* run got 201 and the two others 409
C10_Witness ==
    \E e1, e2, e3 \in BagToSet(done) :
        /\ e1.req.method = "POST" /\ e1.status = 201 /\ e1.same = 3
        /\ e2.req = e1.req /\ e2.status = 409 /\ e2.same = 2
        /\ e3.req = e1.req /\ e3.status = 409 /\ e3.same = 1

====
